---- MODULE Spec2Model ----
(***************************************************************************)
(* A state-machine model of winix's UDP/ICMP traceroute prober,            *)
(* run_traceroute_unix in src/src/traceroute.rs.                           *)
(*                                                                         *)
(* One action per I/O call of the function (resolve, socket creation,      *)
(* set_ttl, send_to, recv, recv_from) plus one for the tail of a hop       *)
(* iteration (print the line, termination check, port advance).  The       *)
(* results of the I/O calls are the environment's choice.                  *)
(*                                                                         *)
(* Three further commands have a specification of their own, each with     *)
(* the rest of the state at rest: JobSpec for the Windows job wrapper in   *)
(* src/src/commands/job.rs, EnvSpec for the functions of src/src/env.rs    *)
(* and NprocSpec for get_processor_count in src/src/nproc.rs.              *)
(***************************************************************************)
EXTENDS Integers, Sequences, FiniteSets, TLC

\* ------------------------------------------------------------------ bounds

MaxHops == 4
MaxProbes == 2
MaxRtt == 0
MaxPids == 2        \* process ids the system may hold
MaxOpens == 2       \* process handles one Job value opens in a run
MaxArgs == 3        \* arguments given to env
MaxLen == 3         \* characters of an assignment argument
MaxUnset == 2       \* entries of unset_vars
MaxCpus == 6        \* processors of the machine
MaxIgnore == 8      \* the --ignore count

\* ------------------------------------------------------- values and inputs

\* Option::None for an address, Option::None for an RTT.
None == "none"
NoRtt == -1

\* u16: the type of start_port, dst_port and probe_port.
U16 == 65536
U8 == 256

Dest == "D"
Routers == {"R1", "R2"}
Addrs == Routers \cup {Dest}

HopChoices == 0..MaxHops
ProbeChoices == 0..MaxProbes
\* The default start port, and the last port of the 16-bit space.
PortChoices == {33434, U16 - 1}
Rtts == 0..MaxRtt

\* What name resolution can answer: an error, or a list of socket addresses.
V4(a) == [fam |-> "v4", addr |-> a]
V6(a) == [fam |-> "v6", addr |-> a]
ResolveResults ==
    { [ok |-> FALSE, addrs |-> <<>>],
      [ok |-> TRUE, addrs |-> <<>>],
      [ok |-> TRUE, addrs |-> <<V6("X6")>>],
      [ok |-> TRUE, addrs |-> <<V6("X6"), V4(Dest)>>],
      [ok |-> TRUE, addrs |-> <<V4(Dest), V4("R1")>>] }

\* A datagram on the raw ICMP socket: its sender, its length n, the low
\* nibble of its first byte, the ICMP type and code bytes that follow the
\* IP header (when it is long enough to hold them), and whether it is the
\* reply elicited by the probe now in flight ("probe") or anything else
\* ("other": a late reply to an earlier probe, unrelated ICMP traffic).
Lens == {0, 20, 21, 28}
Nibbles == {0, 5}
IcmpKinds == {<<11, 0>>, <<3, 3>>}
ReplyKinds == {"probe", "other"}
Datagrams ==
    [src : Addrs, n : Lens, ihl : Nibbles, icmp : IcmpKinds, reply_to : ReplyKinds]
\* A datagram as recv_from sees it: the sender, the payload left aside.
Arrivals == [src : Addrs, reply_to : ReplyKinds]

VARIABLES
    max_hops, probes, start_port,   \* the arguments of run_traceroute_unix
    overflow_checks,                \* build profile: is `+` overflow-checked
    pc,                             \* position in run_traceroute_unix
    diag,                           \* the diagnostic printed on stderr
    ip,                             \* the resolved destination
    ttl, sock_ttl,                  \* loop variable; the send socket's TTL
    p, dst_port, probe_port,        \* probe index and port arithmetic
    hop_ips, rtts,                  \* the outcomes of the current hop
    elapsed, icmp_type, icmp_code,  \* locals between recv and recv_from
    printed_addr, line, hop_lines,  \* stdout: last hop line, lines printed
    reached,                        \* "Reached destination." was printed
    event,                          \* the result of the last I/O call
    probe_log, ttl_log,             \* history: probes attempted, TTLs set
    answered,                       \* the probe in flight got its reply
    all_timeout, routers_then_dest, \* history: which scenario the run is in
    \* commands/job.rs
    os_procs,                       \* the system's processes, by pid
    job_pc,                         \* life of the Job value
    job_handle,                     \* Job.handle
    job_members,                    \* the processes in the job object
    job_ret,                        \* the last call on the Job and its result
    covered,                        \* history: members at the last Ok terminate
    handles_opened, handles_closed, \* history: process handles opened, closed
    \* env.rs
    env_call,                       \* the function applied, and whether it ran
    env_args,                       \* args of execute
    env_arg, env_map,               \* arguments of parse_variable_assignment
    env_config, env_process,        \* EnvConfig; the process environment
    env_out,                        \* the value returned, with its effects
    \* nproc.rs
    nproc_in, nproc_out             \* NprocConfig and CPU counts; the result

trVars ==
    << max_hops, probes, start_port, overflow_checks, pc, diag, ip, ttl,
       sock_ttl, p, dst_port, probe_port, hop_ips, rtts, elapsed, icmp_type,
       icmp_code, printed_addr, line, hop_lines, reached, event, probe_log,
       ttl_log, answered, all_timeout, routers_then_dest >>

jobVars ==
    << os_procs, job_pc, job_handle, job_members, job_ret, covered,
       handles_opened, handles_closed >>
envVars ==
    << env_call, env_args, env_arg, env_map, env_config, env_process,
       env_out >>
nprocVars == << nproc_in, nproc_out >>

vars == << trVars, jobVars, envVars, nprocVars >>

\* What run_traceroute_unix never writes: its arguments and the state of
\* the other commands.
inputs ==
    << max_hops, probes, start_port, overflow_checks, jobVars, envVars,
       nprocVars >>
hopLocals == << hop_ips, rtts >>
recvLocals == << elapsed, icmp_type, icmp_code >>
output == << printed_addr, line, hop_lines, reached >>

\* ------------------------------------------------------------ pure helpers

\* (mutation: the last IPv4 entry is taken, not the first)
RECURSIVE FindMapLastV4(_)
FindMapLastV4(s) ==
    IF s = <<>> THEN None
    ELSE IF FindMapLastV4(Tail(s)) # None THEN FindMapLastV4(Tail(s))
    ELSE IF Head(s).fam = "v4" THEN Head(s).addr
    ELSE None

\* iter.find_map(|s| match s.ip() { V4 => Some, _ => None })
RECURSIVE FindMapV4(_)
FindMapV4(s) ==
    IF s = <<>> THEN None
    ELSE IF Head(s).fam = "v4" THEN Head(s).addr
    ELSE FindMapV4(Tail(s))

resolve_host(r) == IF r.ok THEN FindMapV4(r.addrs) ELSE None

\* dst_port + (p as u16), as the integer before any wrap
ProbePortSum(dp, pi) == dp + (pi % U16)

\* (mutation: the port advances by one per hop, not by probes)
AdvancePortByOne(dp, n) == (dp + 1) % U16

\* dst_port.wrapping_add(probes as u16)
AdvancePort(dp, n) == (dp + (n % U16)) % U16

\* ((slice[0] & 0x0f) * 4) as usize, the arithmetic being u8
HeaderLen(nibble) == ((nibble % 16) * 4) % U8

\* slice.len() >= ip_header_len + 1
LongEnough(n, hl) == n >= hl + 1

\* slice[i] is inside the slice of length n
InBounds(n, i) == i < n

\* (mutation: the address comparison never succeeds)
IsDestinationNever(a, dest) == FALSE

\* (mutation: the destination counts only with a port-unreachable reply)
IsDestinationPortUnreachable(a, dest) ==
    a = dest /\ icmp_type = 3 /\ icmp_code = 3

\* a == IpAddr::V4(ip)
IsDestination(a, dest) == a = dest

\* Tokens of a hop line.
TtlTok(t) == [kind |-> "ttl", addr |-> "", ms |-> t]
AddrTok(a) == [kind |-> "addr", addr |-> a, ms |-> 0]
MsTok(m) == [kind |-> "ms", addr |-> "", ms |-> m]
StarTok == [kind |-> "star", addr |-> "", ms |-> 0]

\* The print loop over hop_ips and rtts, from index i, `printed` being
\* printed_addr so far.
RECURSIVE PrintFields(_, _, _, _)
PrintFields(ips, rs, i, printed) ==
    IF i > Len(ips) THEN <<>>
    ELSE IF ips[i] # None
    THEN (IF printed = None THEN <<AddrTok(ips[i])>> ELSE <<>>)
         \o <<IF rs[i] # NoRtt THEN MsTok(rs[i]) ELSE StarTok>>
         \o PrintFields(ips, rs, i + 1, IF printed = None THEN ips[i] ELSE printed)
    ELSE <<StarTok>> \o PrintFields(ips, rs, i + 1, printed)

\* (mutation: printed_addr is overwritten by every later address)
RECURSIVE LastAddr(_, _)
LastAddr(ips, i) ==
    IF i > Len(ips) THEN None
    ELSE IF LastAddr(ips, i + 1) # None THEN LastAddr(ips, i + 1)
    ELSE ips[i]

\* printed_addr after the print loop: the first Some in hop_ips.
RECURSIVE FirstAddr(_, _)
FirstAddr(ips, i) ==
    IF i > Len(ips) THEN None
    ELSE IF ips[i] # None THEN ips[i]
    ELSE FirstAddr(ips, i + 1)

\* The result of the last I/O call; for recv, with the length and the
\* header-length nibble of the datagram it returned; for the resolver,
\* with the addresses it answered; for a recv whose datagram goes on to be
\* parsed (Rp) and for recv_from (Rf), with the sender of the datagram and
\* what the datagram replies to.
Ev(name) ==
    [name |-> name, n |-> 0, ihl |-> 0, addrs |-> <<>>, src |-> None,
     reply_to |-> "none"]
Rx(name, d) ==
    [name |-> name, n |-> d.n, ihl |-> d.ihl, addrs |-> <<>>, src |-> None,
     reply_to |-> "none"]
Rp(name, d) ==
    [name |-> name, n |-> d.n, ihl |-> d.ihl, addrs |-> <<>>, src |-> d.src,
     reply_to |-> d.reply_to]
Rf(name, d) ==
    [name |-> name, n |-> 0, ihl |-> 0, addrs |-> <<>>, src |-> d.src,
     reply_to |-> d.reply_to]
Rs(name, r) ==
    [name |-> name, n |-> 0, ihl |-> 0, addrs |-> r.addrs, src |-> None,
     reply_to |-> "none"]

\* The reply the scenario "two routers, then the destination" gives the
\* probe of TTL t.
ExpectedReply(t) ==
    [src |-> IF t = 1 THEN "R1" ELSE IF t = 2 THEN "R2" ELSE Dest,
     n |-> 28, ihl |-> 5,
     icmp |-> IF t <= 2 THEN <<11, 0>> ELSE <<3, 3>>,
     reply_to |-> "probe"]

\* ------------------------------------------- the other commands, at rest

\* commands/job.rs: HANDLE values; null is what the Win32 calls return on
\* failure.
NullHandle == 0
Handles == {1, 2}
Pids == 1..MaxPids
ProcStates == {"absent", "running", "dying", "exited"}

\* The last call on the Job: which method, on which pid, Ok or Err.
JobRet(call, pid, ok) == [call |-> call, pid |-> pid, ok |-> ok]

JobIdle ==
    /\ os_procs = [pid \in Pids |-> "absent"]
    /\ job_pc = "idle"
    /\ job_handle = NullHandle
    /\ job_members = {}
    /\ job_ret = JobRet("none", 0, TRUE)
    /\ covered = {}
    /\ handles_opened = 0
    /\ handles_closed = 0

\* env.rs: a String is a sequence of characters, a HashMap a function.
EmptyMap == [k \in {} |-> <<>>]
NoCode == -1

\* EnvConfig::default()
DefaultConfig ==
    [ignore_environment |-> FALSE,
     unset_vars |-> <<>>,
     set_vars |-> EmptyMap,
     null_terminate |-> FALSE,
     command_args |-> <<>>]

\* The function applied and whether it was applied yet.
EnvCall(fn, done) == [fn |-> fn, done |-> done]

\* What a call returned and did: exit code, command spawned, text shown,
\* Ok or Err, and the map returned or left behind.
EnvOut(code, ran, shown, ok, map) ==
    [code |-> code, ran |-> ran, shown |-> shown, ok |-> ok, map |-> map]

NoOut == EnvOut(NoCode, FALSE, "none", TRUE, EmptyMap)

EnvIdle ==
    /\ env_call = EnvCall("idle", FALSE)
    /\ env_args = <<>>
    /\ env_arg = <<>>
    /\ env_map = EmptyMap
    /\ env_config = DefaultConfig
    /\ env_process = EmptyMap
    /\ env_out = NoOut

\* nproc.rs: NprocConfig with the two CPU counts of the machine.
NprocIn(show_all, ignore_count, total, available) ==
    [show_all |-> show_all, ignore_count |-> ignore_count,
     total |-> total, available |-> available]

\* The value get_processor_count returned, once it was called.
NprocOut(called, count) == [called |-> called, count |-> count]

NprocIdle ==
    /\ nproc_in = NprocIn(FALSE, 0, 1, 1)
    /\ nproc_out = NprocOut(FALSE, 0)

\* run_traceroute_unix at rest, for the specifications of the other
\* commands.
TrIdle ==
    /\ max_hops = 0
    /\ probes = 0
    /\ start_port = 33434
    /\ overflow_checks = FALSE
    /\ pc = "idle"
    /\ diag = ""
    /\ ip = None
    /\ ttl = 0
    /\ sock_ttl = 0
    /\ p = 0
    /\ dst_port = 0
    /\ probe_port = 0
    /\ hop_ips = <<>>
    /\ rtts = <<>>
    /\ elapsed = 0
    /\ icmp_type = 0
    /\ icmp_code = 0
    /\ printed_addr = None
    /\ line = <<>>
    /\ hop_lines = 0
    /\ reached = FALSE
    /\ event = Ev("idle")
    /\ probe_log = <<>>
    /\ ttl_log = <<>>
    /\ answered = FALSE
    /\ all_timeout = TRUE
    /\ routers_then_dest = TRUE

\* ------------------------------------------------------------------- Init

Init ==
    /\ max_hops \in HopChoices
    /\ probes \in ProbeChoices
    /\ start_port \in PortChoices
    /\ overflow_checks \in BOOLEAN
    /\ pc = "resolve"
    /\ diag = ""
    /\ ip = None
    /\ ttl = 0
    /\ sock_ttl = 0
    /\ p = 0
    /\ dst_port = 0
    /\ probe_port = 0
    /\ hop_ips = <<>>
    /\ rtts = <<>>
    /\ elapsed = 0
    /\ icmp_type = 0
    /\ icmp_code = 0
    /\ printed_addr = None
    /\ line = <<>>
    /\ hop_lines = 0
    /\ reached = FALSE
    /\ event = Ev("start")
    /\ probe_log = <<>>
    /\ ttl_log = <<>>
    /\ answered = FALSE
    /\ all_timeout = TRUE
    /\ routers_then_dest = TRUE
    /\ JobIdle
    /\ EnvIdle
    /\ NprocIdle

\* ------------------------------------------------------ shared sub-steps

\* The run stays inside both scenarios / leaves both.
Clean == UNCHANGED << all_timeout, routers_then_dest >>
Fault == all_timeout' = FALSE /\ routers_then_dest' = FALSE

\* (mutation: an inclusive range, 0..=probes)
MoreProbesInclusive(pi, n) == pi + 1 <= n

\* (mutation: the TTL advances by two)
NextTtlSkips(t) == t + 2

\* for p in 0..probes: is there another probe after index pi
MoreProbes(pi, n) == pi + 1 < n

\* for ttl in 1..=max_hops: is there a hop after TTL t; and which
MoreHops(t, n) == t < n
NextTtl(t) == t + 1

\* hop_ips.push(a); rtts.push(r); then on to the next probe or to printing.
\* The type and code parsed last stay on record until the next probe is
\* sent.
PushOutcome(a, r) ==
    /\ hop_ips' = Append(hop_ips, a)
    /\ rtts' = Append(rtts, r)
    /\ p' = p + 1
    /\ pc' = IF MoreProbes(p, probes) THEN "send" ELSE "print"
    /\ elapsed' = 0
    /\ UNCHANGED << icmp_type, icmp_code >>

\* A receive call may hand over the reply to the probe in flight only once.
Receivable(d) == d.reply_to = "probe" => ~answered

\* --------------------------------------------------------------- setup

\* resolve_host and the match on its result.  resolve_host yields only
\* IPv4 addresses, so the Some(_) arm of the match is never taken.
Resolve ==
    /\ pc = "resolve"
    /\ \E r \in ResolveResults :
         LET a == resolve_host(r) IN
           IF a # None
           THEN /\ ip' = a
                /\ pc' = "socket"
                /\ event' = Rs("resolved", r)
                /\ Clean
                /\ UNCHANGED diag
           ELSE /\ diag' = "failed_to_resolve"
                /\ pc' = "done"
                /\ event' = Rs("unresolved", r)
                /\ Fault
                /\ UNCHANGED ip
    /\ UNCHANGED << inputs, ttl, sock_ttl, p, dst_port, probe_port, hopLocals,
                    recvLocals, output, probe_log, ttl_log, answered >>

\* (mutation: the setup error is ignored and the function goes on)
SetupStepUnchecked(here, next, ok) ==
    /\ pc = here
    /\ pc' = next
    /\ event' = Ev(IF ok THEN here \o "_ok" ELSE here \o "_err")
    /\ IF ok THEN Clean ELSE Fault

\* A setup call that succeeds moves on; `?` returns the error otherwise.
SetupStep(here, next, ok) ==
    /\ pc = here
    /\ pc' = IF ok THEN next ELSE "failed"
    /\ event' = Ev(IF ok THEN here \o "_ok" ELSE here \o "_err")
    /\ IF ok THEN Clean ELSE Fault

SocketNew ==
    /\ \E ok \in BOOLEAN : SetupStep("socket", "set_read_timeout", ok)
    /\ UNCHANGED << inputs, diag, ip, ttl, sock_ttl, p, dst_port, probe_port,
                    hopLocals, recvLocals, output, probe_log, ttl_log, answered >>

SetReadTimeout ==
    /\ \E ok \in BOOLEAN : SetupStep("set_read_timeout", "bind", ok)
    /\ UNCHANGED << inputs, diag, ip, ttl, sock_ttl, p, dst_port, probe_port,
                    hopLocals, recvLocals, output, probe_log, ttl_log, answered >>

\* UdpSocket::bind, then dst_port = start_port and the entry of the hop loop.
Bind ==
    /\ pc = "bind"
    /\ \E ok \in BOOLEAN :
         IF ok
         THEN /\ dst_port' = start_port
              /\ IF MoreHops(0, max_hops)
                 THEN ttl' = NextTtl(0) /\ pc' = "set_ttl"
                 ELSE ttl' = ttl /\ pc' = "done"
              /\ event' = Ev("bind_ok")
              /\ Clean
         ELSE /\ pc' = "failed"
              /\ event' = Ev("bind_err")
              /\ Fault
              /\ UNCHANGED << dst_port, ttl >>
    /\ UNCHANGED << inputs, diag, ip, sock_ttl, p, probe_port, hopLocals,
                    recvLocals, output, probe_log, ttl_log, answered >>

\* ------------------------------------------------------------ the hop loop

\* send_sock.set_ttl(ttl)? succeeded: print the TTL, fresh outcome vectors.
SetTtlOk ==
    /\ pc = "set_ttl"
    /\ sock_ttl' = ttl
    /\ ttl_log' = Append(ttl_log, ttl)
    /\ line' = << TtlTok(ttl) >>
    /\ printed_addr' = None
    /\ hop_ips' = <<>>
    /\ rtts' = <<>>
    /\ p' = 0
    /\ pc' = IF probes > 0 THEN "send" ELSE "print"
    /\ event' = Ev("set_ttl_ok")
    /\ Clean
    /\ UNCHANGED << inputs, diag, ip, ttl, dst_port, probe_port, recvLocals,
                    hop_lines, reached, probe_log, answered >>

\* send_sock.set_ttl(ttl)? failed: the function returns the error.
SetTtlErr ==
    /\ pc = "set_ttl"
    /\ pc' = "failed"
    /\ event' = Ev("set_ttl_err")
    /\ Fault
    /\ UNCHANGED << inputs, diag, ip, ttl, sock_ttl, p, dst_port, probe_port,
                    hopLocals, recvLocals, output, probe_log, ttl_log, answered >>

\* dst_port + (p as u16) overflows u16 in a build that checks overflow.
PortOverflows == overflow_checks /\ ProbePortSum(dst_port, p) >= U16

PortOverflowPanic ==
    /\ pc = "send"
    /\ PortOverflows
    /\ pc' = "panicked"
    /\ event' = Ev("overflow_panic")
    /\ Fault
    /\ UNCHANGED << inputs, diag, ip, ttl, sock_ttl, p, dst_port, probe_port,
                    hopLocals, recvLocals, output, probe_log, ttl_log, answered >>

\* The probe's port is computed and send_to is called.  The payload (TTL,
\* probe index, random nonce) is written and never read back, so it is no
\* part of the state.
Attempt ==
    /\ pc = "send"
    /\ ~PortOverflows
    /\ probe_port' = ProbePortSum(dst_port, p) % U16
    /\ probe_log' = Append(probe_log,
                           [ttl |-> ttl, sock_ttl |-> sock_ttl, p |-> p,
                            port |-> ProbePortSum(dst_port, p) % U16])

SendOk ==
    /\ Attempt
    /\ pc' = "recv"
    /\ answered' = FALSE
    /\ icmp_type' = 0
    /\ icmp_code' = 0
    /\ event' = Ev("send_ok")
    /\ Clean
    /\ UNCHANGED << inputs, diag, ip, ttl, sock_ttl, p, dst_port, hopLocals,
                    elapsed, output, ttl_log >>

\* (mutation: the send error is propagated with `?`)
SendErrAborts ==
    /\ Attempt
    /\ pc' = "failed"
    /\ event' = Ev("send_err")
    /\ Fault
    /\ UNCHANGED << inputs, diag, ip, ttl, sock_ttl, p, dst_port, hopLocals,
                    recvLocals, output, ttl_log, answered >>

\* send_to failed: eprintln, push None/None, continue with the next probe.
SendErr ==
    /\ Attempt
    /\ PushOutcome(None, NoRtt)
    /\ event' = Ev("send_err")
    /\ Fault
    /\ UNCHANGED << inputs, diag, ip, ttl, sock_ttl, dst_port, output, ttl_log,
                    answered >>

\* (mutation: a probe that timed out is sent again)
RecvTimeoutRetries ==
    /\ pc = "recv"
    /\ pc' = "send"
    /\ event' = Ev("recv_timeout")
    /\ routers_then_dest' = FALSE
    /\ UNCHANGED << inputs, diag, ip, ttl, sock_ttl, p, dst_port, probe_port,
                    hopLocals, recvLocals, output, probe_log, ttl_log,
                    answered, all_timeout >>

\* recv_sock.recv returned Err: the read timeout.
RecvTimeout ==
    /\ pc = "recv"
    /\ PushOutcome(None, NoRtt)
    /\ event' = Ev("recv_timeout")
    /\ routers_then_dest' = FALSE
    /\ UNCHANGED << inputs, diag, ip, ttl, sock_ttl, dst_port, probe_port,
                    output, probe_log, ttl_log, answered, all_timeout >>

\* recv_sock.recv returned Ok(n) with datagram d after e milliseconds.
RecvOk ==
    /\ pc = "recv"
    /\ \E d \in Datagrams, e \in Rtts :
         /\ Receivable(d)
         /\ answered' = (answered \/ d.reply_to = "probe")
         /\ routers_then_dest' = (routers_then_dest /\ d = ExpectedReply(ttl))
         /\ IF d.n < 1
            THEN PushOutcome(None, e) /\ event' = Rx("recv_empty", d)
            ELSE IF LongEnough(d.n, HeaderLen(d.ihl))
            THEN IF InBounds(d.n, HeaderLen(d.ihl) + 1)
                 THEN /\ elapsed' = e
                      /\ icmp_type' = d.icmp[1]
                      /\ icmp_code' = d.icmp[2]
                      /\ pc' = "recv_from"
                      /\ event' = Rp("recv_ok", d)
                      /\ UNCHANGED << hop_ips, rtts, p >>
                 ELSE /\ pc' = "panicked"
                      /\ event' = Rx("index_panic", d)
                      /\ UNCHANGED << hop_ips, rtts, p, recvLocals >>
            ELSE PushOutcome(None, e) /\ event' = Rx("recv_short", d)
    /\ all_timeout' = FALSE
    /\ UNCHANGED << inputs, diag, ip, ttl, sock_ttl, dst_port, probe_port,
                    output, probe_log, ttl_log >>

\* The second receive, recv_from, returned Ok((m, addr)): of the datagram it
\* returned the code reads the sender alone (m and the buffer are unused).
RecvFromOk ==
    /\ pc = "recv_from"
    /\ \E d \in Arrivals, e2 \in Rtts :
         /\ Receivable(d)
         /\ e2 >= elapsed
         /\ answered' = (answered \/ d.reply_to = "probe")
         /\ PushOutcome(d.src, e2)
         /\ event' = Rf("recv_from_ok", d)
    /\ Fault
    /\ UNCHANGED << inputs, diag, ip, ttl, sock_ttl, dst_port, probe_port,
                    output, probe_log, ttl_log >>

\* The second receive returned Err: no address, the first receive's time.
RecvFromErr ==
    /\ pc = "recv_from"
    /\ PushOutcome(None, elapsed)
    /\ event' = Ev("recv_from_err")
    /\ Clean
    /\ UNCHANGED << inputs, diag, ip, ttl, sock_ttl, dst_port, probe_port,
                    output, probe_log, ttl_log, answered >>

\* The tail of a hop iteration: print the line, stop at the destination,
\* otherwise advance the port and go to the next TTL.
FinishHop ==
    /\ pc = "print"
    /\ line' = line \o PrintFields(hop_ips, rtts, 1, None)
    /\ printed_addr' = FirstAddr(hop_ips, 1)
    /\ hop_lines' = hop_lines + 1
    /\ IF FirstAddr(hop_ips, 1) # None /\ IsDestination(FirstAddr(hop_ips, 1), ip)
       THEN /\ reached' = TRUE
            /\ pc' = "done"
            /\ UNCHANGED << dst_port, ttl >>
       ELSE /\ reached' = reached
            /\ dst_port' = AdvancePort(dst_port, probes)
            /\ IF MoreHops(ttl, max_hops)
               THEN ttl' = NextTtl(ttl) /\ pc' = "set_ttl"
               ELSE ttl' = ttl /\ pc' = "done"
    /\ event' = Ev("printed")
    /\ Clean
    /\ UNCHANGED << inputs, diag, ip, sock_ttl, p, probe_port, hopLocals,
                    recvLocals, probe_log, ttl_log, answered >>

Next ==
    \/ Resolve
    \/ SocketNew
    \/ SetReadTimeout
    \/ Bind
    \/ SetTtlOk
    \/ SetTtlErr
    \/ PortOverflowPanic
    \/ SendOk
    \/ SendErr
    \/ RecvTimeout
    \/ RecvOk
    \/ RecvFromOk
    \/ RecvFromErr
    \/ FinishHop

Spec == Init /\ [][Next]_vars

\* ----------------------------------------------------- commands/job.rs

JobInit ==
    /\ TrIdle
    /\ EnvIdle
    /\ NprocIdle
    /\ os_procs \in [Pids -> {"absent", "running"}]
    /\ job_pc = "new"
    /\ job_handle = NullHandle
    /\ job_members = {}
    /\ job_ret = JobRet("none", 0, TRUE)
    /\ covered = {}
    /\ handles_opened = 0
    /\ handles_closed = 0

\* What OpenProcess(PROCESS_ALL_ACCESS, FALSE, pid) can return: null for a
\* pid that names no process; a handle, or null when access is denied,
\* for one that does.
OpenProcess(pid) ==
    IF os_procs[pid] = "absent" THEN {NullHandle}
    ELSE {NullHandle, pid}

\* What AssignProcessToJobObject can return (non-zero is success): it
\* fails on a null handle and on a process that has ended, and may fail
\* on a live one (a process already in an incompatible job).
AssignProcessToJobObject(pid, h) ==
    IF h = NullHandle \/ os_procs[pid] # "running" THEN {0}
    ELSE {0, 1}

\* (mutation: a null process handle is reported as success)
AssignRetOpenOk(h, result) == h = NullHandle \/ result # 0

\* Job::assign's return value: Ok iff the process was opened and added.
AssignRet(h, result) ==
    IF h = NullHandle THEN FALSE
    ELSE IF result = 0 THEN FALSE
    ELSE TRUE

\* (mutation: assign returns on failure before CloseHandle)
HandlesClosedOnSuccess(h, result) ==
    IF h = NullHandle \/ result = 0 THEN 0 ELSE 1

\* The process handles assign closes: the one it opened, whatever
\* AssignProcessToJobObject returned; none after a failed OpenProcess.
HandlesClosed(h, result) == IF h = NullHandle THEN 0 ELSE 1

\* (mutation: the result of TerminateJobObject is not looked at)
TerminateRetUnchecked(result) == TRUE

\* Job::terminate's return value: Err iff TerminateJobObject returned 0.
TerminateRet(result) == IF result = 0 THEN FALSE ELSE TRUE

\* Job::create: CreateJobObjectW returns a handle or null.
JobCreate ==
    /\ job_pc = "new"
    /\ \E h \in Handles \cup {NullHandle} :
         IF h = NullHandle
         THEN /\ job_pc' = "failed"
              /\ job_ret' = JobRet("create", 0, FALSE)
              /\ UNCHANGED job_handle
         ELSE /\ job_pc' = "live"
              /\ job_handle' = h
              /\ job_ret' = JobRet("create", 0, TRUE)
    /\ UNCHANGED << os_procs, job_members, covered, handles_opened,
                    handles_closed >>
    /\ UNCHANGED << trVars, envVars, nprocVars >>

\* Job::assign(pid): open the process, add it to the job, close the
\* process handle whatever the result.
JobAssign(pid) ==
    /\ job_pc = "live"
    /\ handles_opened < MaxOpens
    /\ \E h \in OpenProcess(pid) :
       \E result \in AssignProcessToJobObject(pid, h) :
         /\ job_ret' = JobRet("assign", pid, AssignRet(h, result))
         /\ job_members' =
               IF result # 0 THEN job_members \cup {pid} ELSE job_members
         /\ handles_opened' =
               handles_opened + (IF h = NullHandle THEN 0 ELSE 1)
         /\ handles_closed' = handles_closed + HandlesClosed(h, result)
    /\ UNCHANGED << os_procs, job_pc, job_handle, covered >>
    /\ UNCHANGED << trVars, envVars, nprocVars >>

\* Job::terminate(exit_code): TerminateJobObject ends every process of
\* the job, or fails and ends none.
JobTerminate ==
    /\ job_pc = "live"
    /\ \E result \in {0, 1} :
         /\ job_ret' = JobRet("terminate", 0, TerminateRet(result))
         /\ covered' = IF TerminateRet(result) THEN job_members ELSE covered
         /\ os_procs' =
               [pid \in Pids |->
                  IF result # 0 /\ pid \in job_members
                     /\ os_procs[pid] = "running"
                  THEN "dying" ELSE os_procs[pid]]
    /\ UNCHANGED << job_pc, job_handle, job_members, handles_opened,
                    handles_closed >>
    /\ UNCHANGED << trVars, envVars, nprocVars >>

\* Drop for Job: the job handle is closed and the field nulled.
JobDrop ==
    /\ job_pc = "live"
    /\ job_pc' = "dropped"
    /\ job_handle' = NullHandle
    /\ job_ret' = JobRet("drop", 0, TRUE)
    /\ UNCHANGED << os_procs, job_members, covered, handles_opened,
                    handles_closed >>
    /\ UNCHANGED << trVars, envVars, nprocVars >>

\* A process ends by itself.
OsExit ==
    /\ \E pid \in Pids :
         /\ os_procs[pid] = "running"
         /\ os_procs' = [os_procs EXCEPT ![pid] = "exited"]
    /\ UNCHANGED << job_pc, job_handle, job_members, job_ret, covered,
                    handles_opened, handles_closed >>
    /\ UNCHANGED << trVars, envVars, nprocVars >>

\* The system finishes ending a process that TerminateJobObject hit.
OsReap ==
    /\ \E pid \in Pids :
         /\ os_procs[pid] = "dying"
         /\ os_procs' = [os_procs EXCEPT ![pid] = "exited"]
    /\ UNCHANGED << job_pc, job_handle, job_members, job_ret, covered,
                    handles_opened, handles_closed >>
    /\ UNCHANGED << trVars, envVars, nprocVars >>

JobNext ==
    \/ JobCreate
    \/ \E pid \in Pids : JobAssign(pid)
    \/ JobTerminate
    \/ JobDrop
    \/ OsExit
    \/ OsReap

\* The system does finish every termination it began.
JobSpec == JobInit /\ [][JobNext]_vars /\ WF_vars(OsReap)

\* ------------------------------------------------------------------ env.rs

\* char::is_ascii_alphabetic, char::is_ascii_digit
AsciiAlphabetic ==
    {"a", "b", "c", "d", "e", "f", "g", "h", "i", "j", "k", "l", "m",
     "n", "o", "p", "q", "r", "s", "t", "u", "v", "w", "x", "y", "z",
     "A", "B", "C", "D", "E", "F", "G", "H", "I", "J", "K", "L", "M",
     "N", "O", "P", "Q", "R", "S", "T", "U", "V", "W", "X", "Y", "Z"}
AsciiDigit == {"0", "1", "2", "3", "4", "5", "6", "7", "8", "9"}

\* The option spellings parse_arguments matches.
IgnoreOpts == {<<"-", "i">>,
               <<"-", "-", "i", "g", "n", "o", "r", "e", "-", "e", "n", "v", "i", "r", "o", "n", "m", "e", "n", "t">>}
UnsetOpts == {<<"-", "u">>, <<"-", "-", "u", "n", "s", "e", "t">>}
NullOpts == {<<"-", "0">>, <<"-", "-", "n", "u", "l", "l">>}
HelpOpt == <<"-", "-", "h", "e", "l", "p">>
VersionOpt == <<"-", "-", "v", "e", "r", "s", "i", "o", "n">>

\* (mutation: the test looks at the last character)
EndsWith(str, c) == str # <<>> /\ str[Len(str)] = c

\* str::starts_with(c), str::contains(c)
StartsWith(str, c) == str # <<>> /\ str[1] = c
Contains(str, c) == \E i \in DOMAIN str : str[i] = c

\* (mutation: the split is made at the last '=')
RECURSIVE RFind(_, _, _)
RFind(str, c, i) ==
    IF i = 0 THEN 0
    ELSE IF str[i] = c THEN i
    ELSE RFind(str, c, i - 1)

SplitAtLast(str, c) ==
    IF RFind(str, c, Len(str)) = 0 THEN << str >>
    ELSE << SubSeq(str, 1, RFind(str, c, Len(str)) - 1),
            SubSeq(str, RFind(str, c, Len(str)) + 1, Len(str)) >>

\* The position of the first c at or after i, 0 when there is none.
RECURSIVE Find(_, _, _)
Find(str, c, i) ==
    IF i > Len(str) THEN 0
    ELSE IF str[i] = c THEN i
    ELSE Find(str, c, i + 1)

\* str.splitn(2, c).collect(): one part without c, else the text before
\* the first c and everything after it.
SplitN2(str, c) ==
    IF Find(str, c, 1) = 0 THEN << str >>
    ELSE << SubSeq(str, 1, Find(str, c, 1) - 1),
            SubSeq(str, Find(str, c, 1) + 1, Len(str)) >>

is_valid_var_name(name) ==
    IF name = <<>> THEN FALSE
    ELSE \A i \in DOMAIN name :
            IF i = 1
            THEN name[i] \in AsciiAlphabetic \/ name[i] = "_"
            ELSE name[i] \in AsciiAlphabetic \/ name[i] \in AsciiDigit
                 \/ name[i] = "_"

\* HashMap::insert, HashMap::remove
Insert(map, key, value) ==
    [k \in DOMAIN map \cup {key} |-> IF k = key THEN value ELSE map[k]]
Remove(map, key) == [k \in DOMAIN map \ {key} |-> map[k]]

\* Returns Ok or Err with the map as the call leaves it.
parse_variable_assignment(arg, set_vars) ==
    LET parts == SplitN2(arg, "=") IN
    IF Len(parts) = 2
    THEN IF ~is_valid_var_name(parts[1])
         THEN [ok |-> FALSE, map |-> set_vars]
         ELSE [ok |-> TRUE, map |-> Insert(set_vars, parts[1], parts[2])]
    ELSE [ok |-> FALSE, map |-> set_vars]

\* The result of parse_arguments: Ok(config) or Err, and the text it
\* printed on the way.
Parsed(ok, config, shown) == [ok |-> ok, config |-> config, shown |-> shown]

\* The while loop of parse_arguments from index i (1-based).
RECURSIVE ParseFrom(_, _, _)
ParseFrom(args, i, config) ==
    IF i > Len(args) THEN Parsed(TRUE, config, "none")
    ELSE IF args[i] \in IgnoreOpts
    THEN ParseFrom(args, i + 1, [config EXCEPT !.ignore_environment = TRUE])
    ELSE IF args[i] \in UnsetOpts
    THEN IF i + 1 <= Len(args)
         THEN ParseFrom(args, i + 2,
                [config EXCEPT !.unset_vars = Append(@, args[i + 1])])
         ELSE Parsed(FALSE, config, "none")
    ELSE IF args[i] \in NullOpts
    THEN ParseFrom(args, i + 1, [config EXCEPT !.null_terminate = TRUE])
    ELSE IF args[i] = HelpOpt THEN Parsed(FALSE, config, "help")
    ELSE IF args[i] = VersionOpt THEN Parsed(FALSE, config, "version")
    ELSE IF StartsWith(args[i], "-") /\ config.command_args = <<>>
    THEN Parsed(FALSE, config, "none")
    ELSE IF Contains(args[i], "=") /\ config.command_args = <<>>
    THEN IF parse_variable_assignment(args[i], config.set_vars).ok
         THEN ParseFrom(args, i + 1,
                [config EXCEPT !.set_vars =
                   parse_variable_assignment(args[i], config.set_vars).map])
         ELSE Parsed(FALSE, config, "none")
    ELSE Parsed(TRUE,
           [config EXCEPT !.command_args =
              @ \o SubSeq(args, i, Len(args))],
           "none")

parse_arguments(args) == ParseFrom(args, 1, DefaultConfig)

\* What running the command can come to: not spawned, directly or through
\* the shell; or spawned, ending with an exit code or with none.
RunOutcomes ==
    {[spawned |-> FALSE, code |-> NoCode],
     [spawned |-> TRUE, code |-> NoCode],
     [spawned |-> TRUE, code |-> 0],
     [spawned |-> TRUE, code |-> 2]}

\* exit_status.code().unwrap_or(1), or 127 when the command cannot run.
run_command_with_env(config, run) ==
    IF config.command_args = <<>> THEN 127
    ELSE IF ~run.spawned THEN 127
    ELSE IF run.code = NoCode THEN 1
    ELSE run.code

\* execute: the exit code, whether a command was spawned, the text shown.
execute(args, run) ==
    IF args = <<>> THEN EnvOut(0, FALSE, "environment", TRUE, EmptyMap)
    ELSE IF parse_arguments(args).ok
    THEN IF parse_arguments(args).config.command_args # <<>>
         THEN EnvOut(run_command_with_env(parse_arguments(args).config, run),
                     run.spawned, "none", TRUE, EmptyMap)
         ELSE EnvOut(0, FALSE, "modified", TRUE, EmptyMap)
    ELSE EnvOut(1, FALSE, parse_arguments(args).shown, FALSE, EmptyMap)

\* for var in &unset_vars { env_vars.remove(var) }
RECURSIVE RemoveAll(_, _)
RemoveAll(map, names) ==
    IF names = <<>> THEN map
    ELSE RemoveAll(Remove(map, Head(names)), Tail(names))

\* for (key, value) in &set_vars { env_vars.insert(key, value) }
InsertAll(map, set_vars) ==
    [k \in DOMAIN map \cup DOMAIN set_vars |->
       IF k \in DOMAIN set_vars THEN set_vars[k] ELSE map[k]]

\* (mutation: the set variables go in first and the unset names are
\* removed after them)
build_modified_environment_unset_last(config, process) ==
    RemoveAll(
      InsertAll(IF ~config.ignore_environment THEN process ELSE EmptyMap,
                config.set_vars),
      config.unset_vars)

\* The process environment unless ignored, minus the unset names, plus
\* the set variables.
build_modified_environment(config, process) ==
    InsertAll(
      RemoveAll(IF ~config.ignore_environment THEN process ELSE EmptyMap,
                config.unset_vars),
      config.set_vars)

\* The arguments tried: every option spelling's short form, the two
\* printing options, an unknown option, a good and a bad assignment and a
\* command word.
ArgWords ==
    {<<"-", "i">>,
     <<"-", "u">>,
     <<"-", "0">>,
     <<"-", "-", "h", "e", "l", "p">>,
     <<"-", "-", "v", "e", "r", "s", "i", "o", "n">>,
     <<"-", "x">>,
     <<"a", "=", "1">>,
     <<"=", "1">>,
     <<"l", "s">>}
ArgLists == UNION {[1..n -> ArgWords] : n \in 0..MaxArgs}

\* The assignment arguments tried, and the maps they are parsed into.
Chars == {"a", "1", "_", "=", "-"}
Strings == UNION {[1..n -> Chars] : n \in 0..MaxLen}
PriorMaps == {EmptyMap, Insert(EmptyMap, <<"a">>, <<"0">>)}

\* The environments and configurations tried.
Names == {<<"a">>, <<"b">>}
Values == {<<"1">>, <<"2">>}
Maps == UNION {[D -> Values] : D \in SUBSET Names}
UnsetLists == UNION {[1..n -> Names] : n \in 0..MaxUnset}
BuildConfigs ==
    {[DefaultConfig EXCEPT !.ignore_environment = ig, !.unset_vars = un,
                           !.set_vars = sv] :
       ig \in BOOLEAN, un \in UnsetLists, sv \in Maps}

EnvInit ==
    /\ TrIdle
    /\ JobIdle
    /\ NprocIdle
    /\ env_out = NoOut
    /\ \/ /\ env_call = EnvCall("execute", FALSE)
          /\ env_args \in ArgLists
          /\ env_arg = <<>>
          /\ env_map = EmptyMap
          /\ env_config = DefaultConfig
          /\ env_process = EmptyMap
       \/ /\ env_call = EnvCall("parse_variable_assignment", FALSE)
          /\ env_args = <<>>
          /\ env_arg \in Strings
          /\ env_map \in PriorMaps
          /\ env_config = DefaultConfig
          /\ env_process = EmptyMap
       \/ /\ env_call = EnvCall("build_modified_environment", FALSE)
          /\ env_args = <<>>
          /\ env_arg = <<>>
          /\ env_map = EmptyMap
          /\ env_config \in BuildConfigs
          /\ env_process \in Maps

Execute ==
    /\ env_call = EnvCall("execute", FALSE)
    /\ env_call' = EnvCall("execute", TRUE)
    /\ \E run \in RunOutcomes : env_out' = execute(env_args, run)
    /\ UNCHANGED << env_args, env_arg, env_map, env_config, env_process >>
    /\ UNCHANGED << trVars, jobVars, nprocVars >>

ParseVariableAssignment ==
    /\ env_call = EnvCall("parse_variable_assignment", FALSE)
    /\ env_call' = EnvCall("parse_variable_assignment", TRUE)
    /\ env_out' =
          EnvOut(NoCode, FALSE, "none",
                 parse_variable_assignment(env_arg, env_map).ok,
                 parse_variable_assignment(env_arg, env_map).map)
    /\ UNCHANGED << env_args, env_arg, env_map, env_config, env_process >>
    /\ UNCHANGED << trVars, jobVars, nprocVars >>

BuildModifiedEnvironment ==
    /\ env_call = EnvCall("build_modified_environment", FALSE)
    /\ env_call' = EnvCall("build_modified_environment", TRUE)
    /\ env_out' =
          EnvOut(NoCode, FALSE, "none", TRUE,
                 build_modified_environment(env_config, env_process))
    /\ UNCHANGED << env_args, env_arg, env_map, env_config, env_process >>
    /\ UNCHANGED << trVars, jobVars, nprocVars >>

EnvNext ==
    \/ Execute
    \/ ParseVariableAssignment
    \/ BuildModifiedEnvironment

EnvSpec == EnvInit /\ [][EnvNext]_vars

\* ---------------------------------------------------------------- nproc.rs

\* usize subtraction: below zero it panics or wraps, by the build.
Underflow == -1
SubUsize(a, b) == IF a < b THEN Underflow ELSE a - b

\* (mutation: the comparison admits equality)
ExceedsOrEquals(count, ignore_count) == count >= ignore_count

\* count > config.ignore_count
Exceeds(count, ignore_count) == count > ignore_count

get_processor_count(config) ==
    LET count == IF config.show_all THEN config.total
                 ELSE config.available
    IN IF Exceeds(count, config.ignore_count)
       THEN SubUsize(count, config.ignore_count)
       ELSE 1

NprocInit ==
    /\ TrIdle
    /\ JobIdle
    /\ EnvIdle
    /\ nproc_in \in {NprocIn(sa, ig, t, a) :
                       sa \in BOOLEAN, ig \in 0..MaxIgnore,
                       t \in 1..MaxCpus, a \in 1..MaxCpus}
    /\ nproc_out = NprocOut(FALSE, 0)

GetProcessorCount ==
    /\ ~nproc_out.called
    /\ nproc_out' = NprocOut(TRUE, get_processor_count(nproc_in))
    /\ UNCHANGED nproc_in
    /\ UNCHANGED << trVars, jobVars, envVars >>

NprocNext == GetProcessorCount

NprocSpec == NprocInit /\ [][NprocNext]_vars

\* ------------------------------------------------------------------ claims

Last(s) == s[Len(s)]
Terminated == pc \in {"done", "failed", "panicked"}
SetupFailed ==
    event.name \in {"unresolved", "socket_err", "set_read_timeout_err", "bind_err"}

\* C1: when the address printed for a hop equals the resolved destination,
\* "Reached destination." is printed, the function has returned, and no
\* set_ttl and no probe of a TTL above that hop's has been performed.
C1_EarlyTermination ==
    /\ (printed_addr # None /\ printed_addr = ip) =>
          /\ reached
          /\ pc = "done"
          /\ line[1] = TtlTok(ttl)
          /\ sock_ttl = ttl
          /\ \A i \in DOMAIN ttl_log : ttl_log[i] <= ttl
          /\ \A i \in DOMAIN probe_log : probe_log[i].ttl <= ttl
    /\ reached => (printed_addr = ip /\ pc = "done")

\* C1 witness: the destination answered before max_hops was exhausted.
C1_Witness == reached /\ ttl < max_hops /\ ttl >= 2

\* C2: with one ICMP reply per probe (type 11 from R1 and R2 for hops 1 and
\* 2, type 3 code 3 from the destination for hop 3), exactly 3 hop lines
\* are printed, the third shows the destination, "Reached destination." is
\* printed and no probe of TTL 4 is sent.
C2_RoutersThenDest ==
    (routers_then_dest /\ probes >= 1 /\ max_hops >= 3) =>
       /\ hop_lines <= 3
       /\ \A i \in DOMAIN probe_log : probe_log[i].ttl <= 3
       /\ (hop_lines = 3 /\ event.name = "printed") =>
             (printed_addr = ip /\ reached /\ pc = "done")

\* C3: once setup has succeeded, the hop loop ends only because the hop of
\* TTL max_hops has completed or because a hop was attributed to the
\* destination.
C3_TerminationCauses ==
    (Terminated /\ ~SetupFailed) => (reached \/ hop_lines = max_hops)

\* C4: every printed hop recorded exactly probes outcomes, one per probe
\* index in probe order, in hop_ips and in rtts alike.
C4_OutcomeCount ==
    /\ Len(hop_ips) = Len(rtts)
    /\ pc \in {"send", "recv", "recv_from"} => (Len(hop_ips) = p /\ p < probes)
    /\ pc = "print" => Len(hop_ips) = probes
    /\ event.name = "printed" => (Len(hop_ips) = probes /\ Len(rtts) = probes)

\* C4 witness: a printed hop of two probes, a timeout followed by a reply.
C4_Witness ==
    /\ event.name = "printed"
    /\ probes = 2
    /\ hop_ips = << None, "R1" >>
    /\ rtts[1] = NoRtt

\* C5: the k-th iteration sets the TTL to exactly k, each probe of the
\* iteration is sent while the socket's TTL is k, and no TTL is skipped,
\* repeated or decreased.
C5_MonotonicTtl ==
    /\ \A i \in DOMAIN ttl_log : ttl_log[i] = i
    /\ Len(ttl_log) <= max_hops
    /\ \A i \in DOMAIN probe_log :
         /\ probe_log[i].sock_ttl = probe_log[i].ttl
         /\ probe_log[i].ttl = ((i - 1) \div probes) + 1
         /\ probe_log[i].p = (i - 1) % probes
    /\ pc \in {"send", "recv", "recv_from", "print"} =>
         (sock_ttl = ttl /\ Len(ttl_log) = ttl)

\* C5 witness: the third hop is being probed.
C5_Witness == Len(ttl_log) = 3 /\ pc = "recv" /\ probes = 2 /\ p = 1

\* The port of probe e were u16 unbounded.
IdealPort(e) == start_port + (e.ttl - 1) * probes + e.p

\* C6: as long as the port arithmetic has not wrapped, the probe of hop h
\* and index p is given port start_port + (h-1)*probes + p, greater than
\* the port of every earlier probe of the trace.
C6_PortUniqueness ==
    \A i \in DOMAIN probe_log :
       IdealPort(probe_log[i]) < U16 =>
          /\ probe_log[i].port = IdealPort(probe_log[i])
          /\ \A j \in 1..(i - 1) : probe_log[j].port < probe_log[i].port

\* C6 witness: two hops of two probes each.
C6_Witness ==
    /\ Len(probe_log) >= 4
    /\ probes = 2
    /\ probe_log[4].port = start_port + 3

\* C7: max_hops = 3, probes_per_hop = 1, every probe times out: three hop
\* lines, each the TTL, `*` for the address and `*` for the RTT; no
\* "Reached destination."; the loop runs all 3 hops.
C7_AllTimeout ==
    (all_timeout /\ max_hops = 3 /\ probes = 1) =>
       /\ ~reached
       /\ event.name = "printed" => line = << TtlTok(sock_ttl), StarTok, StarTok >>
       /\ pc = "done" => hop_lines = 3

\* The i-th RTT field of the line the spec describes.
RttField(i) == IF hop_ips[i] # None THEN MsTok(rtts[i]) ELSE StarTok

\* C8: the hop line is the TTL, then the representative address (`*` when
\* there is none), then probes_per_hop fields, the i-th being the RTT of
\* probe i or `*` (stated for hops of at least one probe).
C8_HopLineFormat ==
    (event.name = "printed" /\ probes >= 1) =>
       line = << TtlTok(sock_ttl),
                 IF printed_addr = None THEN StarTok ELSE AddrTok(printed_addr) >>
              \o [i \in 1..probes |-> RttField(i)]

\* A datagram of length n too short to hold the IP header and the ICMP
\* type and code bytes after it.
TooShort(n, nibble) == n < HeaderLen(nibble) + 2

\* C9: a datagram too short to hold the IP header and the ICMP type and
\* code bytes yields a degraded outcome (elapsed time, no address) and
\* never crashes or aborts the hop.
C9_MalformedNotFatal ==
    (event.name \in {"recv_empty", "recv_short", "recv_ok", "index_panic"}
       /\ TooShort(event.n, event.ihl)) =>
          /\ pc \in {"send", "print"}
          /\ Last(hop_ips) = None
          /\ Last(rtts) \in Rtts

\* C10: a failed send records (no address, no RTT) for its probe, attempts
\* no receive, and leaves the hop loop where a timeout of that probe would
\* have left it.
C10_SendFailureLocal ==
    [][event'.name = "send_err" =>
         /\ pc = "send"
         /\ hop_ips' = Append(hop_ips, None)
         /\ rtts' = Append(rtts, NoRtt)
         /\ p' = p + 1
         /\ pc' = IF p + 1 < probes THEN "send" ELSE "print"
         /\ UNCHANGED << ttl, sock_ttl, dst_port, elapsed, icmp_type, icmp_code,
                         answered, output >>]_vars

\* C10 witness: a send failed on the first probe of a hop and the second
\* probe of the same hop got a reply.
C10_Witness ==
    /\ pc = "print"
    /\ probes = 2
    /\ hop_ips = << None, Dest >>
    /\ rtts[1] = NoRtt
    /\ ~all_timeout
    /\ event.name = "recv_from_ok"
    /\ probe_log[Len(probe_log) - 1].p = 0

\* C11: when acquiring the raw socket, setting its read timeout or binding
\* the UDP socket fails, the function returns the error with no TTL set,
\* no probe sent and no hop line printed.
C11_SetupFailureAborts ==
    event.name \in {"socket_err", "set_read_timeout_err", "bind_err"} =>
       /\ pc = "failed"
       /\ sock_ttl = 0
       /\ ttl_log = <<>>
       /\ probe_log = <<>>
       /\ hop_lines = 0
       /\ line = <<>>
       /\ ~reached

\* C11 witness: the last setup call, the bind, failed.
C11_Witness == event.name = "bind_err" /\ pc = "failed"

\* Is there an IPv4 entry among the resolver's addresses.
HasV4(addrs) == \E i \in DOMAIN addrs : addrs[i].fam = "v4"

\* C12: when resolution fails or answers no IPv4 entry the function
\* returns normally with no socket created and no probe sent; otherwise
\* the destination is the first IPv4 entry in result order.
C12_ResolveIPv4 ==
    /\ event.name \in {"resolved", "unresolved"} =>
          (event.name = "resolved" <=> HasV4(event.addrs))
    /\ event.name = "unresolved" =>
          /\ pc = "done"
          /\ ip = None
          /\ sock_ttl = 0
          /\ ttl_log = <<>>
          /\ probe_log = <<>>
          /\ hop_lines = 0
    /\ event.name = "resolved" =>
          /\ pc = "socket"
          /\ \E i \in DOMAIN event.addrs :
               /\ event.addrs[i] = V4(ip)
               /\ \A j \in 1..(i - 1) : event.addrs[j].fam # "v4"
    /\ pc \in {"socket", "set_read_timeout", "bind"} => ip # None

\* C12 witness: a host with IPv6 addresses only.
C12_Witness ==
    /\ event.name = "unresolved"
    /\ event.addrs # <<>>
    /\ pc = "done"

\* C13: a host that resolves to IPv6 addresses only gets the "only IPv4
\* is supported" diagnostic, a host that does not resolve the "failed to
\* resolve host" one.
C13_DistinctDiagnostics ==
    event.name = "unresolved" =>
       diag = IF event.addrs # <<>> THEN "only_ipv4" ELSE "failed_to_resolve"

\* C20: the destination port of every probe is
\* (start_port + (h-1)*probes + p) mod 2^16, and a sum above 65535 wraps
\* without aborting the trace.
C20_PortWrapNotFatal ==
    /\ event.name # "overflow_panic"
    /\ \A i \in DOMAIN probe_log :
         probe_log[i].port = IdealPort(probe_log[i]) % U16

\* C14: once create, assign of running processes and terminate have all
\* succeeded, every process that was in the job at that terminate, however
\* many, is no longer running: none of them runs on, and each has ended
\* for good before long.
C14_TerminateKillsAssigned ==
    \A pid \in Pids :
       [](pid \in covered =>
            /\ os_procs[pid] # "running"
            /\ <>(os_procs[pid] = "exited"))

\* C14 witness: a job with more than one process was terminated and all
\* of them have ended.
C14_Witness ==
    /\ job_ret = JobRet("terminate", 0, TRUE)
    /\ Cardinality(covered) >= 2
    /\ \A pid \in covered : os_procs[pid] = "exited"

\* C15: assign of a pid that names no process returns Err, adds nothing
\* to the job and leaves the Job live with its handle open.
C15_AssignInvalidPid ==
    /\ (job_ret.call = "assign" /\ os_procs[job_ret.pid] = "absent") =>
          /\ ~job_ret.ok
          /\ job_ret.pid \notin job_members
          /\ job_pc = "live"
          /\ job_handle \in Handles
    /\ \A pid \in job_members : os_procs[pid] # "absent"

\* C15 witness: assign failed on an absent pid while the job already had
\* a member.
C15_Witness ==
    /\ job_ret.call = "assign"
    /\ os_procs[job_ret.pid] = "absent"
    /\ ~job_ret.ok
    /\ job_members # {}

\* Has the env function fn been applied.
Applied(fn) == env_call = EnvCall(fn, TRUE)

\* An argument that starts with '-' and is none of the option spellings.
UnknownOption(arg) ==
    /\ arg # <<>>
    /\ arg[1] = "-"
    /\ arg \notin IgnoreOpts \cup UnsetOpts \cup NullOpts
    /\ arg # HelpOpt
    /\ arg # VersionOpt

\* An argument that is neither an option nor an assignment.
Word(arg) ==
    /\ ~(arg # <<>> /\ arg[1] = "-")
    /\ \A i \in DOMAIN arg : arg[i] # "="

\* Is args[i] the operand of a -u / --unset right before it.
RECURSIVE IsOperand(_, _)
IsOperand(args, i) ==
    /\ i > 1
    /\ args[i - 1] \in UnsetOpts
    /\ ~IsOperand(args, i - 1)

\* C16 (as claimed): execute returns 0 on no arguments, and returns 1
\* without running a command when an argument that starts with '-' and is
\* no recognised option comes before any command word.
C16_ExitCodes ==
    Applied("execute") =>
       /\ env_args = <<>> => env_out.code = 0
       /\ (\E i \in DOMAIN env_args :
             /\ UnknownOption(env_args[i])
             /\ \A j \in 1..(i - 1) : ~Word(env_args[j]))
          => (env_out.code = 1 /\ ~env_out.ran)

\* C16 (amended): execute returns 0 on no arguments, and returns 1 without
\* running a command when an argument that starts with '-', is no
\* recognised option and is not the operand of a -u / --unset comes before
\* any command word (an operand is no command word either).
C16_ExitCodesAmended ==
    Applied("execute") =>
       /\ env_args = <<>> => (env_out.code = 0 /\ ~env_out.ran)
       /\ (\E i \in DOMAIN env_args :
             /\ UnknownOption(env_args[i])
             /\ ~IsOperand(env_args, i)
             /\ \A j \in 1..(i - 1) :
                  IsOperand(env_args, j) \/ ~Word(env_args[j]))
          => (env_out.code = 1 /\ ~env_out.ran)

\* C16 witness: an unknown option after a -u with its operand was refused.
C16_Witness ==
    /\ Applied("execute")
    /\ Len(env_args) = 3
    /\ env_args[1] \in UnsetOpts
    /\ Word(env_args[2])
    /\ UnknownOption(env_args[3])
    /\ env_out.code = 1
    /\ ~env_out.ran

\* C17: parse_variable_assignment splits at the first '=' only; it returns
\* Ok and inserts key -> value exactly when the argument has an '=' and the
\* key is non-empty, starts with an ASCII letter or '_' and holds only
\* ASCII letters, digits and '_'; otherwise it returns Err and the map is
\* as it was.
C17_AssignmentParsing ==
    Applied("parse_variable_assignment") =>
       LET hasEq == \E i \in DOMAIN env_arg : env_arg[i] = "="
           first == CHOOSE i \in DOMAIN env_arg :
                       /\ env_arg[i] = "="
                       /\ \A j \in 1..(i - 1) : env_arg[j] # "="
           key == SubSeq(env_arg, 1, first - 1)
           value == SubSeq(env_arg, first + 1, Len(env_arg))
           valid ==
              /\ key # <<>>
              /\ key[1] \in AsciiAlphabetic \cup {"_"}
              /\ \A j \in DOMAIN key :
                   key[j] \in AsciiAlphabetic \cup AsciiDigit \cup {"_"}
       IN /\ env_out.ok <=> (hasEq /\ valid)
          /\ env_out.ok =>
                /\ DOMAIN env_out.map = DOMAIN env_map \cup {key}
                /\ env_out.map[key] = value
                /\ \A k \in DOMAIN env_map \ {key} :
                     env_out.map[k] = env_map[k]
          /\ ~env_out.ok => env_out.map = env_map

\* C17 witness: an argument with two '=' was split at the first, its key
\* overriding an entry of the map.
C17_Witness ==
    /\ Applied("parse_variable_assignment")
    /\ env_arg = <<"a", "=", "=">>
    /\ env_out.ok
    /\ <<"a">> \in DOMAIN env_map
    /\ env_out.map[<<"a">>] = <<"=">>

\* The names listed in unset_vars.
UnsetNames == {env_config.unset_vars[i] : i \in DOMAIN env_config.unset_vars}

\* C18: build_modified_environment returns exactly set_vars when
\* ignore_environment is set, and otherwise the process environment
\* without the unset names and with the set_vars entries added or
\* overriding; every set_vars entry is in the result with its value, also
\* under a name that is unset as well.
C18_ModifiedEnvironment ==
    Applied("build_modified_environment") =>
       /\ env_config.ignore_environment =>
             /\ DOMAIN env_out.map = DOMAIN env_config.set_vars
             /\ \A k \in DOMAIN env_out.map :
                  env_out.map[k] = env_config.set_vars[k]
       /\ ~env_config.ignore_environment =>
             /\ DOMAIN env_out.map =
                   (DOMAIN env_process \ UnsetNames)
                      \cup DOMAIN env_config.set_vars
             /\ \A k \in DOMAIN env_out.map :
                  env_out.map[k] =
                     IF k \in DOMAIN env_config.set_vars
                     THEN env_config.set_vars[k]
                     ELSE env_process[k]
       /\ \A k \in DOMAIN env_config.set_vars :
             /\ k \in DOMAIN env_out.map
             /\ env_out.map[k] = env_config.set_vars[k]

\* C18 witness: a name of the process environment is both unset and set
\* to another value, and a second name is unset only.
C18_Witness ==
    /\ Applied("build_modified_environment")
    /\ ~env_config.ignore_environment
    /\ DOMAIN env_process = Names
    /\ UnsetNames = Names
    /\ DOMAIN env_config.set_vars = {<<"a">>}
    /\ env_config.set_vars[<<"a">>] # env_process[<<"a">>]
    /\ DOMAIN env_out.map = {<<"a">>}

\* The count get_processor_count starts from.
CpuCount == IF nproc_in.show_all THEN nproc_in.total ELSE nproc_in.available

\* C19: get_processor_count returns count - ignore_count when count is
\* above ignore_count and 1 otherwise; the result is at least 1 and the
\* subtraction never goes below zero.
C19_ProcessorCountClamp ==
    nproc_out.called =>
       /\ nproc_out.count =
             IF CpuCount > nproc_in.ignore_count
             THEN CpuCount - nproc_in.ignore_count
             ELSE 1
       /\ nproc_out.count >= 1

\* C19 witness: as many processors ignored as there are.
C19_Witness ==
    /\ nproc_out.called
    /\ CpuCount > 1
    /\ CpuCount = nproc_in.ignore_count
    /\ nproc_out.count = 1

\* The blocking receive calls the last probe has made so far: recv, and
\* recv_from after it.
ReceiveCalls ==
    IF event.name \in {"recv_from_ok", "recv_from_err"} THEN 2
    ELSE IF event.name \in {"recv_timeout", "recv_empty", "recv_short",
                            "recv_ok", "index_panic"} THEN 1
    ELSE 0

\* C21: a probe blocks in receive for at most one timeout: it makes at
\* most one blocking receive call, so a trace blocks for at most
\* max_hops * probes timeouts.
C21_BlockingBound == ReceiveCalls <= 1

\* C22: the source address recorded for a probe is the sender of the
\* datagram whose header length and ICMP type and code were parsed for it.
C22_SingleDatagram ==
    [][(event.name = "recv_ok" /\ event'.name = "recv_from_ok")
          => Last(hop_ips') = event.src]_vars

\* C23: every address in a hop's outcomes comes from a reply elicited by a
\* probe of that hop; a late reply to an earlier probe or other traffic
\* is never recorded.
C23_RepliesMatchHop ==
    event.name = "recv_from_ok" =>
       (Last(hop_ips) # None => event.reply_to = "probe")

\* C24: whether the trace stops at a hop is decided by the source
\* addresses of the hop's replies alone, whatever their ICMP type and
\* code: it stops when one of them is the destination and goes on when
\* none is.
C24_TerminationIgnoresType ==
    event.name = "printed" =>
       (reached <=> \E i \in DOMAIN hop_ips : hop_ips[i] = ip)

\* C24 (amended): whether the trace stops at a hop is decided by the hop's
\* representative address alone, whatever the ICMP type and code parsed:
\* it stops when that address is the destination, also with a type other
\* than 3, and goes on otherwise, also after type 3 code 3 from a router.
C24_TerminationIgnoresTypeAmended ==
    event.name = "printed" =>
       /\ reached <=> printed_addr = ip
       /\ (printed_addr \in Routers /\ icmp_type = 3 /\ icmp_code = 3)
             => (~reached /\ (pc = "done" => ttl = max_hops))

\* C24 witness: the destination's address came with a time-exceeded
\* datagram and the trace stopped before max_hops.
C24_Witness ==
    /\ event.name = "printed"
    /\ probes = 1
    /\ hop_ips = << ip >>
    /\ icmp_type = 11
    /\ reached
    /\ ttl < max_hops

\* The address tokens of the hop line printed last.
LineAddrs == {i \in DOMAIN line : line[i].kind = "addr"}

\* C25: the address printed for a hop and compared with the destination is
\* the source address of the lowest-index probe whose outcome has one;
\* addresses of later probes are neither printed nor compared.
C25_RepresentativeAddress ==
    event.name = "printed" =>
       IF \A i \in DOMAIN hop_ips : hop_ips[i] = None
       THEN /\ printed_addr = None
            /\ LineAddrs = {}
            /\ ~reached
       ELSE \E i \in DOMAIN hop_ips :
               /\ hop_ips[i] # None
               /\ \A j \in 1..(i - 1) : hop_ips[j] = None
               /\ printed_addr = hop_ips[i]
               /\ Cardinality(LineAddrs) = 1
               /\ \A k \in LineAddrs : line[k].addr = hop_ips[i]
               /\ reached <=> hop_ips[i] = ip

\* C25 witness: a hop whose first address is a router and whose second is
\* the destination was printed, and the trace went on.
C25_Witness ==
    /\ event.name = "printed"
    /\ Len(hop_ips) = 2
    /\ hop_ips[1] \in Routers
    /\ hop_ips[2] = ip
    /\ printed_addr = hop_ips[1]
    /\ ~reached

\* The send_to calls made so far for the current TTL.
SentThisHop == {i \in DOMAIN probe_log : probe_log[i].ttl = ttl}

\* C26: every hop and probe index gets at most one send_to, in hop and
\* index order, at most max_hops * probes in a trace, and a probe is sent
\* only when the outcomes of all earlier probes of its hop are recorded.
C26_OneShotPerSlot ==
    /\ \A i, j \in DOMAIN probe_log :
         i < j =>
            \/ probe_log[i].ttl < probe_log[j].ttl
            \/ /\ probe_log[i].ttl = probe_log[j].ttl
               /\ probe_log[i].p < probe_log[j].p
    /\ Len(probe_log) <= max_hops * probes
    /\ pc \in {"recv", "recv_from"} =>
          /\ Cardinality(SentThisHop) = Len(hop_ips) + 1
          /\ Last(probe_log).p = Len(hop_ips)
    /\ pc \in {"send", "print"} => Cardinality(SentThisHop) = Len(hop_ips)

\* C26 witness: a whole trace of timeouts used every slot once.
C26_Witness ==
    /\ pc = "done"
    /\ all_timeout
    /\ max_hops >= 2
    /\ probes >= 2
    /\ Len(probe_log) = max_hops * probes

\* C27: whenever assign has returned, every process handle it opened has
\* been closed exactly once, whether the process was added to the job or
\* not, and no handle was closed for a process that could not be opened:
\* as many handles are closed as were opened, after every call.
C27_NoHandleLeak == handles_closed = handles_opened

\* C27 witness: the one process assign opened was not added to the job,
\* and its handle was closed.
C27_Witness ==
    /\ job_ret.call = "assign"
    /\ ~job_ret.ok
    /\ handles_opened = 1
    /\ handles_closed = 1
    /\ job_members = {}

\* C28: when --help or --version is met while the options are parsed,
\* execute prints the text, runs no command and returns 0.
C28_HelpVersionExitZero ==
    (Applied("execute") /\ env_out.shown \in {"help", "version"}) =>
       (env_out.code = 0 /\ ~env_out.ran)

====
